---- MODULE Spec2Model ----
(***************************************************************************)
(* A model of parsec: the execution engine `run` (src/lib/run/run.js) and  *)
(* the four requestor factories built on it: parallel, sequence, race and  *)
(* fallback.  One invocation of a factory-built requestor is modelled.     *)
(* Every action is one turn of the JavaScript event queue and runs to      *)
(* completion, including every callback that the turn calls re-entrantly   *)
(* (receiver closure -> action -> cancel -> requestor cancellor -> ...).   *)
(***************************************************************************)
EXTENDS Integers, Sequences, FiniteSets, TLC

\* ------------------------------------------------------------------ bounds
\* The longest requestor array handed to sequence, race or fallback.
MaxRequestors == 3
\* The longest necessities array and optionals array handed to parallel.
MaxNecessities == 2
MaxOptionals == 1
\* The largest throttle handed to parallel or race.
MaxThrottle == 2
\* The longest requestor array with misbehaving cancellors.
MaxFaultyRequestors == 2
\* The longest first array and the longest optionals array in the arguments
\* of a factory call that the factory has yet to check.
MaxCallRequestors == 2
MaxCallOptionals == 1

\* ------------------------------------------------------ JavaScript values
\* Every JavaScript value of the model is a record [kind, by]; `by` is the
\* index of the requestor that produced it (or the evidence of a Reason).
JsUndefined == [kind |-> "undefined", by |-> -1]
\* requestorIndex === undefined (run.js:103, run.js:137)
UndefinedIndex == -1
\* the messages the caller may pass to the factory-built requestor
InitialMessages == {[kind |-> "message", by |-> -1]}
\* the value requestor i reports on success
ValueOf(i) == [kind |-> "value", by |-> i]
\* the reason requestor i reports on failure
ReasonOf(i) == [kind |-> "fail", by |-> i]
\* the exception requestor i throws
ThrownBy(i) == [kind |-> "thrown", by |-> i]
\* `cancellors[requestorIndex] = cancellor` when cancellors is undefined
TypeError == [kind |-> "TypeError", by |-> -1]
\* the value of parallel's result: the `results` array itself
ArrayValue == [kind |-> "array", by |-> -1]

\* lib/utils makeReason: a Reason with an excuse and an optional evidence
makeReason(excuse, evidence) == [kind |-> excuse, by |-> evidence]

\* lib/constants.js
SEQUENCE == "sequence"
PARALLEL == "parallel"
FALLBACK == "fallback"
RACE == "race"
FactoryName == {SEQUENCE, PARALLEL, FALLBACK, RACE}

SKIP_OPTIONALS_IF_TIME_REMAINS == "SKIP_OPTIONALS_IF_TIME_REMAINS"
TRY_OPTIONALS_IF_TIME_REMAINS == "TRY_OPTIONALS_IF_TIME_REMAINS"
REQUIRE_NECESSITIES == "REQUIRE_NECESSITIES"
allTimeOptions ==
    {SKIP_OPTIONALS_IF_TIME_REMAINS, TRY_OPTIONALS_IF_TIME_REMAINS,
     REQUIRE_NECESSITIES}

\* spec.timeLimit: undefined, 0, or a positive number of milliseconds
NoTimeLimit == -1
ZeroTimeLimit == 0
SomeTimeLimit == 10
TimeLimits == {NoTimeLimit, ZeroTimeLimit, SomeTimeLimit}
\* a timeLimit run rejects: a negative number
NegativeTimeLimit == -100
\* a throttle run rejects: not a non-negative safe integer
InvalidThrottle == -1
\* `cancel` read by a timeout whose `const cancel = run(...)` never finished
ReferenceError == [kind |-> "ReferenceError", by |-> -1]

\* ------------------------------------------- the arguments of the factories
\* What the caller may put where a requestor is expected: a function of 0 to
\* 3 parameters, Function.prototype, or an object.
Candidates ==
    [type : {"function"}, length : 0 .. 3]
        \cup {[type |-> "Function.prototype", length |-> 0],
              [type |-> "object", length |-> 0]}
\* a requestor as the factories want it
ProperRequestor == [type |-> "function", length |-> 1]
\* The first argument of a factory, or spec.optionals: nothing, a non-empty
\* string, an object that is no array, or an array.
NoArgument == [type |-> "undefined", elems |-> <<>>]
StringArgument == [type |-> "string", elems |-> <<>>]
ObjectArgument == [type |-> "object", elems |-> <<>>]
ArrayArgument(elems) == [type |-> "array", elems |-> elems]
ArraysUpTo(n) ==
    UNION {{ArrayArgument(e) : e \in [1 .. k -> Candidates]} : k \in 0 .. n}
\* a timeOption that is none of lib/constants.js
InvalidTimeOption == "invalid"

\* -------------------------------------------------- requestor behaviours
\* What a requestor does inside the call that launches it: it calls its
\* receiver zero, one or two times, and then returns or throws.
SyncCalls == {<<>>, <<"ok">>, <<"fail">>, <<"ok", "fail">>}
\* What the call returns: nothing, a cancellor, a cancellor that reports a
\* failure to its receiver when it is called; or the requestor throws.
Returns == {"undefined", "fn", "fnReports", "throws"}
\* What a misbehaving requestor returns: a value that is neither undefined
\* nor a function, or a cancellor that throws when it is called.
FaultyReturns == {"nonfn", "fnThrows"}
\* typeof cancellor === "function" (run.js:204)
IsFunctionSlot(slot) == slot \in {"fn", "fnReports", "fnThrows"}

\* ----------------------------------------------------------------- state
VARIABLES
    \* the configuration fixed by the factory call
    factoryName,               \* spec[__factoryName__] || the factory's own
    requestorsLength,          \* requestors.length
    numberOfNecessities,       \* parallel.js:161
    timeLimit,                 \* spec.timeLimit
    throttle,                  \* spec.throttle
    initialMessage,            \* the message given to the built requestor
    builtTimeOption,           \* parallel.js:120-158: timeOption as built
    returnKinds,               \* what the requestors handed over may return
    call,                      \* the arguments of the factory call
    callable,                  \* whether spec.action and spec.timeout of run
                               \* are functions
    \* the factory call
    thrown,                    \* what the factory call threw, if anything
    \* the factory-built requestor
    phase,                     \* "called", then "threw" or "built", then
                               \* "invoked"
    timeOption,                \* parallel.js:120 (assigned again at :239)
    numberPending,             \* parallel.js:167, race.js:75
    numberPendingNecessities,  \* parallel.js:168
    results,                   \* parallel.js:171
    \* the run session
    cancellors,                \* run.js:51; <<>> stands for undefined
    nextIndex,                 \* run.js:53
    timerId,                   \* run.js:56: "undefined" or "set"
    requestorIndex,            \* run.js:85, one per launched requestor
    \* the event queue
    queue,                     \* messages of the pending startRequestor calls
    timerArmed,                \* the deadline's setTimeout has yet to fire
    \* history
    received,                  \* the calls of the factory-built receiver
    cancelCalls,               \* the reasons each requestor's cancellor got
    launched,                  \* the requestor calls, in order
    actionCalls,               \* how often action was called, per index
    outcomes,                  \* what run took each requestor's outcome to be
    returned                   \* what each launched requestor returned

cfgVars == <<factoryName, requestorsLength, numberOfNecessities, timeLimit,
             throttle, initialMessage, builtTimeOption, returnKinds, call,
             callable>>
runVars == <<phase, timeOption, numberPending, numberPendingNecessities,
             results, cancellors, nextIndex, timerId, requestorIndex, queue,
             timerArmed, received, cancelCalls, launched, actionCalls,
             outcomes, returned>>
vars == <<cfgVars, runVars, thrown>>

Indices == 0 .. (requestorsLength - 1)

\* The behaviours of the requestors handed over.
Behaviours == [calls : SyncCalls, ret : returnKinds]

\* race and fallback share raceRequestor; parallel and sequence share
\* parallelRequestor
IsRace == factoryName \in {RACE, FALLBACK}

\* ------------------------------------------------------- the results array
\* A JavaScript array: its length, its elements (holes included) and the
\* property "undefined" that results[undefined] = ... creates.
Hole == [value |-> [kind |-> "hole", by |-> -1],
         reason |-> [kind |-> "hole", by |-> -1]]
EmptyResults ==
    [len |-> 0, elems |-> [i \in Indices |-> Hole], undef |-> Hole]

\* An action that pushes each result in the order of completion.
SetResult_push(res, idx, value, reason) ==
    IF idx = UndefinedIndex
    THEN [res EXCEPT !.undef = [value |-> value, reason |-> reason]]
    ELSE [res EXCEPT !.elems[res.len] = [value |-> value, reason |-> reason],
                     !.len = @ + 1]

\* results[requestorIndex] = { value, reason }  (parallel.js:193)
SetResult(res, idx, value, reason) ==
    IF idx = UndefinedIndex
    THEN [res EXCEPT !.undef = [value |-> value, reason |-> reason]]
    ELSE [res EXCEPT !.elems[idx] = [value |-> value, reason |-> reason],
                     !.len = IF idx + 1 > @ THEN idx + 1 ELSE @]

\* results.pop(): the removed last element, undefined for an empty array or
\* a hole (parallel.js:225)
PopValue(res) ==
    IF res.len = 0 \/ res.elems[res.len - 1] = Hole
    THEN [value |-> JsUndefined, reason |-> JsUndefined, defined |-> FALSE]
    ELSE [value |-> res.elems[res.len - 1].value,
          reason |-> res.elems[res.len - 1].reason, defined |-> TRUE]
PopRest(res) ==
    IF res.len = 0 THEN res
    ELSE [res EXCEPT !.len = @ - 1, !.elems[res.len - 1] = Hole]

\* -------------------------------------------- the state as a single record
\* The callbacks of one turn are operators from state to state.  `array` is
\* the Array object of run.js:51, which an executing forEach keeps visiting
\* after the variable `cancellors` was set to undefined.
Cur(turn) ==
    [hasCancellors |-> cancellors # <<>>,
     array |-> IF cancellors # <<>> THEN cancellors
               ELSE [i \in Indices |-> "undefined"],
     nextIndex |-> nextIndex, timerId |-> timerId, timerArmed |-> timerArmed,
     requestorIndex |-> requestorIndex, queue |-> queue,
     timeOption |-> timeOption, numberPending |-> numberPending,
     numberPendingNecessities |-> numberPendingNecessities,
     results |-> results, received |-> received, cancelCalls |-> cancelCalls,
     launched |-> launched, actionCalls |-> actionCalls,
     outcomes |-> outcomes, returned |-> returned, turn |-> turn]

Commit(S) ==
    /\ cancellors' = IF S.hasCancellors THEN S.array ELSE <<>>
    /\ nextIndex' = S.nextIndex
    /\ timerId' = S.timerId
    /\ timerArmed' = S.timerArmed
    /\ requestorIndex' = S.requestorIndex
    /\ queue' = S.queue
    /\ timeOption' = S.timeOption
    /\ numberPending' = S.numberPending
    /\ numberPendingNecessities' = S.numberPendingNecessities
    /\ results' = S.results
    /\ received' = S.received
    /\ cancelCalls' = S.cancelCalls
    /\ launched' = S.launched
    /\ actionCalls' = S.actionCalls
    /\ outcomes' = S.outcomes
    /\ returned' = S.returned

\* ------------------------------------------------ the callbacks of a turn
\* The factory-built requestor's receiver is called with { value, reason }.
\* `results` is the array handed over when the value is the results array;
\* `from` is the callback that makes the call ("action", "timeout" or
\* "requestor") and idx the requestorIndex action was called with.
CallReceiver(S, value, reason, res, from, idx) ==
    [S EXCEPT !.received =
        Append(@, [value |-> value, reason |-> reason, results |-> res,
                   from |-> from, requestorIndex |-> idx, turn |-> S.turn])]

RECURSIVE cancel(_, _), forEachCancellor(_, _, _), receiverClosure(_, _, _, _)
RECURSIVE action(_, _, _, _)

\* A run that hands every requestor the initial message.
nextMessage_initial(value) == initialMessage

\* A run that hands every requestor the value reported before it.
nextMessage_value(value) == value

\* run.js:114-120: the message of the next startRequestor call
nextMessage(value) ==
    IF factoryName = SEQUENCE THEN value ELSE initialMessage

\* A receiver closure that does not look at `cancellors`.
receiverClosure_unguarded(S, i, value, reason) ==
    IF S.requestorIndex[i] = UndefinedIndex
    THEN S
    ELSE LET S1 == [S EXCEPT !.array[i] = "undefined",
                             !.outcomes[i] = IF value # JsUndefined THEN "ok"
                                             ELSE "fail"]
             S2 == action(S1, value, reason, S1.requestorIndex[i])
             S3 == [S2 EXCEPT !.requestorIndex[i] = UndefinedIndex]
         IN  IF S3.nextIndex < requestorsLength
             THEN [S3 EXCEPT !.queue = Append(@, nextMessage(value))]
             ELSE S3

\* A receiver closure that queues no further startRequestor.
receiverClosure_queuesNothing(S, i, value, reason) ==
    IF ~S.hasCancellors \/ S.requestorIndex[i] = UndefinedIndex
    THEN S
    ELSE LET S1 == [S EXCEPT !.array[i] = "undefined",
                             !.outcomes[i] = IF value # JsUndefined THEN "ok"
                                             ELSE "fail"]
             S2 == action(S1, value, reason, S1.requestorIndex[i])
         IN  [S2 EXCEPT !.requestorIndex[i] = UndefinedIndex]

\* run.js:90-122: the receiver that startRequestor hands to requestor i
receiverClosure(S, i, value, reason) ==
    IF ~S.hasCancellors \/ S.requestorIndex[i] = UndefinedIndex
    THEN S
    ELSE LET S1 == [S EXCEPT !.array[i] = "undefined",
                             !.outcomes[i] = IF value # JsUndefined THEN "ok"
                                             ELSE "fail"]
             S2 == action(S1, value, reason, S1.requestorIndex[i])
             S3 == [S2 EXCEPT !.requestorIndex[i] = UndefinedIndex]
         IN  IF S3.nextIndex < requestorsLength
             THEN [S3 EXCEPT !.queue = Append(@, nextMessage(value))]
             ELSE S3

\* A forEach whose callback has no try: the exception of a throwing cancellor
\* ends the visit of the array.
forEachCancellor_noTry(S, i, reason) ==
    IF i >= requestorsLength
    THEN S
    ELSE LET slot == S.array[i]
             S1 == IF IsFunctionSlot(slot)
                   THEN [S EXCEPT !.cancelCalls[i] = Append(@, reason)]
                   ELSE S
             S2 == IF slot = "fnReports"
                   THEN receiverClosure(S1, i, JsUndefined, ReasonOf(i))
                   ELSE S1
         IN  IF slot = "fnThrows" THEN S2
             ELSE forEachCancellor(S2, i + 1, reason)

\* run.js:202-207: cancellors.forEach, from index i on.  Each element is read
\* when it is visited; an exception of a cancellor is swallowed.
forEachCancellor(S, i, reason) ==
    IF i >= requestorsLength
    THEN S
    ELSE LET slot == S.array[i]
             S1 == IF IsFunctionSlot(slot)
                   THEN [S EXCEPT !.cancelCalls[i] = Append(@, reason)]
                   ELSE S
             S2 == IF slot = "fnReports"
                   THEN receiverClosure(S1, i, JsUndefined, ReasonOf(i))
                   ELSE S1
         IN  forEachCancellor(S2, i + 1, reason)

\* run.js:183-186
DEFAULT_CANCEL_REASON == makeReason("Cancel!", -1)

\* A cancel that calls the cancellors without releasing the array.
cancel_keepsCancellors(S, reason) ==
    LET given == IF reason = JsUndefined THEN DEFAULT_CANCEL_REASON
                 ELSE reason
        S1 == IF S.timerId # "undefined"
              THEN [S EXCEPT !.timerArmed = FALSE, !.timerId = "undefined"]
              ELSE S
    IN  IF S1.hasCancellors
        THEN forEachCancellor(S1, 0, given)
        ELSE S1

\* run.js:195-210
cancel(S, reason) ==
    LET given == IF reason = JsUndefined THEN DEFAULT_CANCEL_REASON
                 ELSE reason
        S1 == IF S.timerId # "undefined"
              THEN [S EXCEPT !.timerArmed = FALSE, !.timerId = "undefined"]
              ELSE S
    IN  IF S1.hasCancellors
        THEN [forEachCancellor(S1, 0, given) EXCEPT !.hasCancellors = FALSE]
        ELSE S1

\* An action that takes every requestor for a necessity.
isNecessity_all(idx) == idx # UndefinedIndex

\* parallel.js:199: requestorIndex < numberOfNecessities, which is false
\* for an undefined requestorIndex
isNecessity(idx) == idx # UndefinedIndex /\ idx < numberOfNecessities

\* An action that finishes only when nothing is pending.
parallelAction_waitsForAll(S, value, reason, idx) ==
    LET S1 == [S EXCEPT !.results = SetResult(@, idx, value, reason),
                        !.numberPending = @ - 1]
        S2 == IF isNecessity(idx)
              THEN [S1 EXCEPT !.numberPendingNecessities = @ - 1]
              ELSE S1
    IN  IF isNecessity(idx) /\ value = JsUndefined
        THEN CallReceiver(cancel(S2, reason), JsUndefined, reason,
                          EmptyResults, "action", idx)
        ELSE IF S2.numberPending < 1
        THEN LET S3 == cancel(S2, makeReason("All necessities are complete",
                                             -1))
             IN  IF factoryName = SEQUENCE
                 THEN CallReceiver(
                          [S3 EXCEPT !.results = PopRest(@)],
                          PopValue(S3.results).value,
                          PopValue(S3.results).reason, EmptyResults,
                          "action", idx)
                 ELSE CallReceiver(S3, ArrayValue, reason, S3.results,
                                   "action", idx)
        ELSE S2

\* parallel.js:191-230
parallelAction(S, value, reason, idx) ==
    LET S1 == [S EXCEPT !.results = SetResult(@, idx, value, reason),
                        !.numberPending = @ - 1]
        S2 == IF isNecessity(idx)
              THEN [S1 EXCEPT !.numberPendingNecessities = @ - 1]
              ELSE S1
    IN  IF isNecessity(idx) /\ value = JsUndefined
        THEN CallReceiver(cancel(S2, reason), JsUndefined, reason,
                          EmptyResults, "action", idx)
        ELSE IF \/ S2.numberPending < 1
                \/ /\ S2.timeOption = SKIP_OPTIONALS_IF_TIME_REMAINS
                   /\ S2.numberPendingNecessities < 1
        THEN LET S3 == cancel(S2, makeReason("All necessities are complete",
                                             -1))
             IN  IF factoryName = SEQUENCE
                 THEN CallReceiver(
                          [S3 EXCEPT !.results = PopRest(@)],
                          PopValue(S3.results).value,
                          PopValue(S3.results).reason, EmptyResults,
                          "action", idx)
                 ELSE CallReceiver(S3, ArrayValue, reason, S3.results,
                                   "action", idx)
        ELSE S2

\* A race that does not cancel the losers when a requestor wins.
raceAction_noCancel(S, value, reason, idx) ==
    LET S1 == [S EXCEPT !.numberPending = @ - 1]
    IN  IF value # JsUndefined
        THEN CallReceiver(S1, value, reason, EmptyResults, "action", idx)
        ELSE IF S1.numberPending < 1
        THEN CallReceiver(cancel(S1, reason), JsUndefined, reason,
                          EmptyResults, "action", idx)
        ELSE S1

\* race.js:81-98
raceAction(S, value, reason, idx) ==
    LET S1 == [S EXCEPT !.numberPending = @ - 1]
    IN  IF value # JsUndefined
        THEN CallReceiver(cancel(S1, makeReason("Cancelling loser!", idx)),
                          value, reason, EmptyResults, "action", idx)
        ELSE IF S1.numberPending < 1
        THEN CallReceiver(cancel(S1, reason), JsUndefined, reason,
                          EmptyResults, "action", idx)
        ELSE S1

\* spec.action as run calls it (run.js:100, run.js:133)
action(S, value, reason, idx) ==
    LET S1 == [S EXCEPT !.actionCalls[idx] = @ + 1]
    IN  IF IsRace THEN raceAction(S1, value, reason, idx)
        ELSE parallelAction(S1, value, reason, idx)

\* A timeout that treats REQUIRE_NECESSITIES as it treats
\* TRY_OPTIONALS_IF_TIME_REMAINS.
parallelTimeout_requireAsTry(S) ==
    LET reason == makeReason("Time limit reached!", timeLimit)
    IN  IF S.timeOption \in {REQUIRE_NECESSITIES,
                             TRY_OPTIONALS_IF_TIME_REMAINS}
        THEN LET S1 == cancel(S, reason)
             IN  IF S1.numberPendingNecessities < 1
                 THEN CallReceiver(S1, ArrayValue, JsUndefined, S1.results,
                                   "timeout", UndefinedIndex)
                 ELSE CallReceiver(S1, JsUndefined, reason, EmptyResults,
                                   "timeout", UndefinedIndex)
        ELSE S

\* parallel.js:231-258
parallelTimeout(S) ==
    LET reason == makeReason("Time limit reached!", timeLimit)
    IN  IF S.timeOption = REQUIRE_NECESSITIES
        THEN LET S1 == [S EXCEPT
                          !.timeOption = SKIP_OPTIONALS_IF_TIME_REMAINS]
             IN  IF S1.numberPendingNecessities < 1
                 THEN LET S2 == cancel(S1, reason)
                      IN  CallReceiver(S2, ArrayValue, reason, S2.results,
                                       "timeout", UndefinedIndex)
                 ELSE S1
        ELSE IF S.timeOption = TRY_OPTIONALS_IF_TIME_REMAINS
        THEN LET S1 == cancel(S, reason)
             IN  IF S1.numberPendingNecessities < 1
                 THEN CallReceiver(S1, ArrayValue, JsUndefined, S1.results,
                                   "timeout", UndefinedIndex)
                 ELSE CallReceiver(S1, JsUndefined, reason, EmptyResults,
                                   "timeout", UndefinedIndex)
        ELSE S

\* race.js:99-107
raceTimeout(S) ==
    LET reason == makeReason("Timeout occured!", timeLimit)
    IN  CallReceiver(cancel(S, reason), JsUndefined, reason, EmptyResults,
                     "timeout", UndefinedIndex)

\* spec.timeout as the timer calls it (run.js:162)
timeout(S) == IF IsRace THEN raceTimeout(S) ELSE parallelTimeout(S)

\* The requestor calls its receiver synchronously, once per element of calls.
RECURSIVE syncCalls(_, _, _)
syncCalls(S, i, calls) ==
    IF calls = <<>>
    THEN S
    ELSE syncCalls(IF Head(calls) = "ok"
                   THEN receiverClosure(S, i, ValueOf(i), JsUndefined)
                   ELSE receiverClosure(S, i, JsUndefined, ReasonOf(i)),
                   i, Tail(calls))

\* run.js:76-144.  The set of states startRequestor(message) can end in, one
\* for each behaviour of the requestors it launches.  `direct` tells the call
\* of run.js:142 from the calls the event queue makes.
RECURSIVE startRequestor(_, _, _)
\* run.js:128-143
catch(S, i, reason, message) ==
    LET S0 == IF S.requestorIndex[i] = UndefinedIndex THEN S
              ELSE [S EXCEPT !.outcomes[i] = "threw"]
        S1 == action(S0, JsUndefined, reason, S.requestorIndex[i])
        S2 == [S1 EXCEPT !.requestorIndex[i] = UndefinedIndex]
    IN  startRequestor(S2, message, TRUE)

\* A startRequestor that goes on to the next requestor after every requestor,
\* not only after one that threw.
afterRequestor_keepsGoing(S, i, ret, message) ==
    LET S1 == [S EXCEPT !.returned[i] = ret]
    IN  IF ret = "throws"
        THEN catch(S1, i, ThrownBy(i), message)
        ELSE IF ~S1.hasCancellors
        THEN catch(S1, i, TypeError, message)
        ELSE IF S1.requestorIndex[i] = UndefinedIndex
        THEN startRequestor(S1, message, TRUE)
        ELSE startRequestor([S1 EXCEPT !.array[i] = ret], message, TRUE)

\* run.js:126 and what follows the requestor's return or throw
afterRequestor(S, i, ret, message) ==
    LET S1 == [S EXCEPT !.returned[i] = ret]
    IN  IF ret = "throws"
        THEN catch(S1, i, ThrownBy(i), message)
        ELSE IF ~S1.hasCancellors
        THEN catch(S1, i, TypeError, message)
        ELSE IF S1.requestorIndex[i] = UndefinedIndex
        THEN {S1}    \* sets the property "undefined", no element
        ELSE {[S1 EXCEPT !.array[i] = ret]}

\* A startRequestor that takes the requestors from the end of the array.
startRequestor_fromEnd(S, message, direct) ==
    IF ~S.hasCancellors \/ S.nextIndex >= requestorsLength
    THEN {S}
    ELSE LET i == requestorsLength - 1 - S.nextIndex
             S0 == [S EXCEPT !.nextIndex = @ + 1,
                             !.launched = Append(@, [index |-> i,
                                                     message |-> message,
                                                     direct |-> direct])]
         IN  UNION { afterRequestor(syncCalls(S0, i, b.calls), i, b.ret,
                                    message) : b \in Behaviours }

startRequestor(S, message, direct) ==
    IF ~S.hasCancellors \/ S.nextIndex >= requestorsLength
    THEN {S}
    ELSE LET i == S.nextIndex
             S0 == [S EXCEPT !.nextIndex = i + 1,
                             !.launched = Append(@, [index |-> i,
                                                     message |-> message,
                                                     direct |-> direct])]
         IN  UNION { afterRequestor(syncCalls(S0, i, b.calls), i, b.ret,
                                    message) : b \in Behaviours }

\* ------------------------------------------------------------ the factory
\* A parallel that works with the caller's timeOption whatever the lists.
normaliseTimeOption_given(necessities, optionals, given) == given

\* parallel.js:120-158: the timeOption parallel works with, from the number
\* of necessities and optionals and the caller's timeOption
normaliseTimeOption(necessities, optionals, given) ==
    IF necessities = 0
    THEN IF optionals = 0 THEN given ELSE TRY_OPTIONALS_IF_TIME_REMAINS
    ELSE IF optionals = 0 THEN SKIP_OPTIONALS_IF_TIME_REMAINS ELSE given

\* lib/utils isFunction
isFunction(candidate) == candidate.type = "function"

\* checkRequestors without the test of the number of parameters
checkRequestors_functionsOnly(requestors) ==
    IF \E k \in 1 .. Len(requestors) : ~isFunction(requestors[k])
    THEN makeReason("Requestors must be functions of 1 or 2 arguments!", -1)
    ELSE JsUndefined

\* lib/utils checkRequestors: the Reason it throws, or undefined
checkRequestors(requestors) ==
    IF \E k \in 1 .. Len(requestors) :
          \/ ~isFunction(requestors[k])
          \/ requestors[k].length < 1
          \/ requestors[k].length > 2
    THEN makeReason("Requestors must be functions of 1 or 2 arguments!", -1)
    ELSE JsUndefined

\* What a factory call comes to: what it throws or, with nothing thrown, the
\* requestors, numberOfNecessities and timeOption of the requestor it returns.
Throws(reason, option) ==
    [thrown |-> reason, requestors |-> <<>>, numberOfNecessities |-> 0,
     timeOption |-> option]
Builds(requestors, necessities, option) ==
    [thrown |-> JsUndefined, requestors |-> requestors,
     numberOfNecessities |-> necessities, timeOption |-> option]

\* parallel.js:86-163
parallel(necessetiesOrSpec, optionals, given) ==
    IF necessetiesOrSpec.type \notin {"array", "object"}
    THEN Throws(makeReason("necessetiesOrSpec must be an array of requestors or a ParallelSpec object",
                           -1),
                given)
    ELSE LET necessities == necessetiesOrSpec.elems
             noOptionals ==
                 optionals.type = "undefined" \/ Len(optionals.elems) = 0
             requestors ==
                 IF noOptionals THEN necessities
                 ELSE necessities \o optionals.elems
             option ==
                 normaliseTimeOption(Len(necessities),
                                     IF noOptionals THEN 0
                                     ELSE Len(optionals.elems),
                                     given)
         IN  IF /\ Len(necessities) > 0
                /\ ~noOptionals
                /\ option \notin allTimeOptions
             THEN Throws(makeReason("timeOption must be one of: ", -1),
                         option)
             ELSE IF checkRequestors(requestors) # JsUndefined
             THEN Throws(checkRequestors(requestors), option)
             ELSE Builds(requestors, Len(necessities), option)

\* sequence.js:98-113
sequence(requestors) ==
    parallel(requestors, NoArgument, SKIP_OPTIONALS_IF_TIME_REMAINS)

\* race.js:50-71.  A string or an object has no method `some`, and
\* checkRequestors throws a TypeError at `requestors.some`.
race(requestors, given) ==
    IF \/ requestors.type = "undefined"
       \/ requestors.type = "array" /\ Len(requestors.elems) = 0
    THEN Throws(makeReason("No requestors provided!", -1), given)
    ELSE IF requestors.type # "array"
    THEN Throws(TypeError, given)
    ELSE IF checkRequestors(requestors.elems) # JsUndefined
    THEN Throws(checkRequestors(requestors.elems), given)
    ELSE Builds(requestors.elems, 0, given)

\* fallback.js:44-54
fallback(requestors, given) == race(requestors, given)

\* the factory call with the arguments c
factoryCall(c) ==
    IF c.factory = PARALLEL
    THEN parallel(c.first, c.optionals, c.timeOption)
    ELSE IF c.factory = SEQUENCE THEN sequence(c.first)
    ELSE IF c.factory = RACE THEN race(c.first, c.timeOption)
    ELSE fallback(c.first, c.timeOption)

\* No requestor was invoked yet: nothing of a session exists.
NothingInvoked ==
    /\ numberPending = 0
    /\ numberPendingNecessities = 0
    /\ results = EmptyResults
    /\ cancellors = <<>>
    /\ nextIndex = 0
    /\ timerId = "undefined"
    /\ requestorIndex = [i \in Indices |-> i]
    /\ queue = <<>>
    /\ timerArmed = FALSE
    /\ received = <<>>
    /\ cancelCalls = [i \in Indices |-> <<>>]
    /\ launched = <<>>
    /\ actionCalls = [i \in (Indices \cup {UndefinedIndex}) |-> 0]
    /\ outcomes = [i \in Indices |-> "pending"]
    /\ returned = [i \in Indices |-> "unlaunched"]

\* The state after parallel(...), sequence(...), race(...) or fallback(...)
\* returned a requestor (parallel.js:86-163, sequence.js:98-113,
\* race.js:50-71, fallback: throttle 1 over race).
InitArgs(kinds, limits, throttles, callables) ==
    /\ returnKinds = kinds
    /\ callable \in callables
    /\ factoryName \in FactoryName
    /\ requestorsLength \in 0 .. (MaxRequestors + MaxNecessities + MaxOptionals)
    /\ numberOfNecessities \in 0 .. requestorsLength
    /\ IF factoryName = PARALLEL
       THEN /\ numberOfNecessities <= MaxNecessities
            /\ requestorsLength - numberOfNecessities <= MaxOptionals
       ELSE requestorsLength <= MaxRequestors
    /\ timeLimit \in limits
    /\ throttle \in throttles
    /\ initialMessage \in InitialMessages
    /\ factoryName \in {SEQUENCE, FALLBACK} => throttle = 1
    /\ factoryName = SEQUENCE => numberOfNecessities = requestorsLength
    /\ IsRace => requestorsLength > 0 /\ numberOfNecessities = 0
    /\ \E given \in allTimeOptions :
          /\ factoryName # PARALLEL => given = SKIP_OPTIONALS_IF_TIME_REMAINS
          /\ timeOption =
                normaliseTimeOption(numberOfNecessities,
                                    requestorsLength - numberOfNecessities,
                                    given)
    /\ builtTimeOption = timeOption
    /\ call = [factory |-> factoryName,
               first |-> ArrayArgument([k \in 1 .. (IF IsRace
                                                    THEN requestorsLength
                                                    ELSE numberOfNecessities)
                                           |-> ProperRequestor]),
               optionals |->
                   IF IsRace \/ requestorsLength = numberOfNecessities
                   THEN NoArgument
                   ELSE ArrayArgument(
                            [k \in 1 .. (requestorsLength
                                          - numberOfNecessities) |->
                                 ProperRequestor]),
               timeOption |-> timeOption]
    /\ thrown = JsUndefined
    /\ phase = "built"
    /\ NothingInvoked

\* The factories hand run an action and a timeout of their own
\* (parallel.js:191, parallel.js:231, race.js:81, race.js:99).
FactoryCallables == {[action |-> TRUE, timeout |-> TRUE]}

\* The state after a factory returned a requestor that run accepts.
InitWith(kinds) ==
    InitArgs(kinds, TimeLimits, 0 .. MaxThrottle, FactoryCallables)

Init == InitWith(Returns)

\* ---------------------------------------------------------------- actions
\* Math.min(throttle || Infinity, requestors.length)  (run.js:179)
amountToParallelize ==
    IF throttle = 0 \/ throttle > requestorsLength THEN requestorsLength
    ELSE throttle

\* run.js:57-176: the Reason run throws for its arguments, or undefined,
\* and whether the deadline's timer was set by then (run.js:162).
runThrows ==
    IF ~callable.action
    THEN [thrown |-> makeReason("action must be callable", -1),
          armed |-> FALSE]
    ELSE IF timeLimit # NoTimeLimit /\ timeLimit < 0
    THEN [thrown |-> makeReason("timeLimit must be a number greater than 0!",
                                timeLimit),
          armed |-> FALSE]
    ELSE IF timeLimit # NoTimeLimit /\ ~callable.timeout
    THEN [thrown |-> makeReason("timeout must be a function!", -1),
          armed |-> FALSE]
    ELSE IF throttle < 0
    THEN [thrown |-> makeReason("Throttle must be a nonnegative, safe integer!",
                                throttle),
          armed |-> timeLimit # NoTimeLimit]
    ELSE [thrown |-> JsUndefined, armed |-> timeLimit # NoTimeLimit]

\* The caller invokes the built requestor: parallelRequestor
\* (parallel.js:164-264) or raceRequestor (race.js:72-112), and run
\* (run.js:39-182) inside it.
Invoke ==
    /\ phase = "built"
    /\ LET S0 == [Cur("invoke") EXCEPT
                    !.numberPending = requestorsLength,
                    !.numberPendingNecessities = numberOfNecessities,
                    !.results = EmptyResults]
       IN  IF ~IsRace /\ requestorsLength = 0
           THEN /\ Commit(IF factoryName = SEQUENCE
                          THEN CallReceiver(S0, initialMessage, JsUndefined,
                                            EmptyResults, "requestor",
                                            UndefinedIndex)
                          ELSE CallReceiver(S0, ArrayValue, JsUndefined,
                                            S0.results, "requestor",
                                            UndefinedIndex))
                /\ phase' = "invoked"
                /\ thrown' = thrown
           ELSE IF runThrows.thrown # JsUndefined
           THEN /\ Commit([S0 EXCEPT
                       !.hasCancellors = TRUE,
                       !.array = [i \in Indices |-> "undefined"],
                       !.nextIndex = 0,
                       !.timerId = IF runThrows.armed THEN "set"
                                   ELSE "undefined",
                       !.timerArmed = runThrows.armed])
                /\ phase' = "runThrew"
                /\ thrown' = runThrows.thrown
           ELSE /\ Commit([S0 EXCEPT
                       !.hasCancellors = TRUE,
                       !.array = [i \in Indices |-> "undefined"],
                       !.nextIndex = 0,
                       !.timerId = IF timeLimit # NoTimeLimit THEN "set"
                                   ELSE "undefined",
                       !.timerArmed = timeLimit # NoTimeLimit,
                       !.queue = [k \in 1 .. amountToParallelize |->
                                     initialMessage]])
                /\ phase' = "invoked"
                /\ thrown' = thrown
    /\ UNCHANGED cfgVars

\* The event queue runs a pending startRequestor(message) (run.js:112,
\* run.js:181).  A deadline of 0 ms was queued before it and runs first.
Launch ==
    /\ phase = "invoked"
    /\ queue # <<>>
    /\ ~(timerArmed /\ timeLimit = ZeroTimeLimit)
    /\ \E S \in startRequestor([Cur("launch") EXCEPT !.queue = Tail(@)],
                               Head(queue), FALSE) : Commit(S)
    /\ UNCHANGED <<cfgVars, phase, thrown>>

\* A launched requestor calls its receiver in a later turn, with a success
\* or with a failure.
AsyncReceive ==
    /\ phase = "invoked"
    /\ \E i \in Indices, outcome \in {"ok", "fail"} :
          /\ i < nextIndex
          /\ Commit(syncCalls(Cur("async"), i, <<outcome>>))
    /\ UNCHANGED <<cfgVars, phase, thrown>>

\* The deadline's timer fires (run.js:162).
Timeout ==
    /\ phase = "invoked"
    /\ timerArmed
    /\ Commit(timeout([Cur("timeout") EXCEPT !.timerArmed = FALSE]))
    /\ UNCHANGED <<cfgVars, phase, thrown>>

\* The caller calls the cancellor the built requestor returned, with a
\* reason of its own or with none (run.js:195).
ExternalCancel ==
    /\ phase = "invoked"
    /\ IsRace \/ requestorsLength > 0
    /\ \E reason \in {JsUndefined, makeReason("caller", -1)} :
          Commit(cancel(Cur("cancel"), reason))
    /\ UNCHANGED <<cfgVars, phase, thrown>>

Next == Invoke \/ Launch \/ AsyncReceive \/ Timeout \/ ExternalCancel

Spec == Init /\ [][Next]_vars

\* The caller invokes the built requestor again, once the run of the earlier
\* invocation is over.  The new invocation has a session of its own
\* (parallel.js:167-171, run.js:50-56); timeOption belongs to the factory
\* call (parallel.js:120) and is the one the earlier invocation left.
InvokeAgain ==
    /\ phase = "invoked"
    /\ cancellors = <<>>
    /\ LET S0 == [Cur("invoke") EXCEPT
                    !.numberPending = requestorsLength,
                    !.numberPendingNecessities = numberOfNecessities,
                    !.results = EmptyResults,
                    !.requestorIndex = [i \in Indices |-> i],
                    !.received = <<>>,
                    !.cancelCalls = [i \in Indices |-> <<>>],
                    !.launched = <<>>,
                    !.actionCalls =
                        [i \in (Indices \cup {UndefinedIndex}) |-> 0],
                    !.outcomes = [i \in Indices |-> "pending"],
                    !.returned = [i \in Indices |-> "unlaunched"]]
       IN  IF ~IsRace /\ requestorsLength = 0
           THEN Commit(IF factoryName = SEQUENCE
                       THEN CallReceiver(S0, initialMessage, JsUndefined,
                                         EmptyResults, "requestor",
                                         UndefinedIndex)
                       ELSE CallReceiver(S0, ArrayValue, JsUndefined,
                                         S0.results, "requestor",
                                         UndefinedIndex))
           ELSE Commit([S0 EXCEPT
                    !.hasCancellors = TRUE,
                    !.array = [i \in Indices |-> "undefined"],
                    !.nextIndex = 0,
                    !.timerId = IF timeLimit # NoTimeLimit THEN "set"
                                ELSE "undefined",
                    !.timerArmed = timeLimit # NoTimeLimit,
                    !.queue = [k \in 1 .. amountToParallelize |->
                                  initialMessage]])
    /\ UNCHANGED <<cfgVars, phase, thrown>>

\* A factory-built requestor that is invoked time and again.
NextReinvoke == Next \/ InvokeAgain
SpecReinvoke == Init /\ [][NextReinvoke]_vars

\* A run without a deadline that the caller never cancels and that does not
\* stop while a step that changes something is left to take: the invocation,
\* a queued startRequestor, or the report of a launched requestor.
InitLive == Init /\ timeLimit = NoTimeLimit
NextLive == Invoke \/ Launch \/ AsyncReceive
\* A step of NextLive that changes something can be taken: the invocation; a
\* queued startRequestor (which leaves the queue at least); or the first
\* receiver call of a launched requestor in a session not cancelled
\* (run.js:91-93).
CanStep ==
    \/ phase = "built"
    \/ /\ phase = "invoked"
       /\ \/ queue # <<>>
          \/ /\ cancellors # <<>>
             /\ \E i \in Indices :
                   i < nextIndex /\ requestorIndex[i] # UndefinedIndex
\* Weak fairness of NextLive, WF_vars(NextLive), with ENABLED <<NextLive>>_vars
\* written out as CanStep.
SpecLive ==
    /\ InitLive
    /\ [][NextLive]_vars
    /\ ([]<>(~CanStep) \/ []<><<NextLive>>_vars)

\* The deadline's timer fires after run threw with the timer set.  The
\* timeout of parallel rewrites REQUIRE_NECESSITIES (parallel.js:238-239); a
\* timeout that goes on to `cancel(reason)` (parallel.js:241, parallel.js:249,
\* race.js:105) reads a `cancel` that was never initialised (parallel.js:187,
\* race.js:77) and ends with a ReferenceError before it calls the receiver.
TimeoutAfterThrow ==
    /\ phase = "runThrew"
    /\ timerArmed
    /\ timerArmed' = FALSE
    /\ timeOption' = IF ~IsRace /\ timeOption = REQUIRE_NECESSITIES
                     THEN SKIP_OPTIONALS_IF_TIME_REMAINS
                     ELSE timeOption
    /\ thrown' = IF \/ IsRace
                    \/ timeOption = TRY_OPTIONALS_IF_TIME_REMAINS
                    \/ /\ timeOption = REQUIRE_NECESSITIES
                       /\ numberPendingNecessities < 1
                 THEN ReferenceError
                 ELSE thrown
    /\ UNCHANGED <<cfgVars, phase, numberPending, numberPendingNecessities,
                   results, cancellors, nextIndex, timerId, requestorIndex,
                   queue, received, cancelCalls, launched, actionCalls,
                   outcomes, returned>>

\* run called with any arguments: a timeLimit that may be negative, a
\* throttle that may be no non-negative safe integer, an action and a timeout
\* that may be no functions.
InitRun ==
    InitArgs({"undefined", "fn"}, TimeLimits \cup {NegativeTimeLimit},
             (0 .. 1) \cup {InvalidThrottle},
             [action : BOOLEAN, timeout : BOOLEAN])
NextRun == Next \/ TimeoutAfterThrow
SpecRun == InitRun /\ [][NextRun]_vars

\* Requestors that may also return a non-function or a throwing cancellor.
InitFaulty ==
    /\ InitWith(Returns \cup FaultyReturns)
    /\ requestorsLength <= MaxFaultyRequestors
SpecFaulty == InitFaulty /\ [][Next]_vars

\* The caller has yet to call the factory: any first argument, and for
\* parallel any optionals and timeOption.  (An object handed to sequence is
\* taken for parallel's spec, parallel.js:94, and is left out.)
InitFactory ==
    /\ returnKinds = {"undefined"}
    /\ \E factory \in FactoryName :
       \E first \in {NoArgument, StringArgument, ObjectArgument}
                        \cup ArraysUpTo(MaxCallRequestors) :
       \E optionals \in {NoArgument} \cup ArraysUpTo(MaxCallOptionals) :
       \E given \in allTimeOptions \cup {InvalidTimeOption} :
          /\ factory = SEQUENCE => first # ObjectArgument
          /\ factory # PARALLEL =>
                /\ optionals = NoArgument
                /\ given = SKIP_OPTIONALS_IF_TIME_REMAINS
          /\ call = [factory |-> factory, first |-> first,
                     optionals |-> optionals, timeOption |-> given]
          /\ timeOption = given
    /\ factoryName = call.factory
    /\ requestorsLength = Len(factoryCall(call).requestors)
    /\ numberOfNecessities = factoryCall(call).numberOfNecessities
    /\ builtTimeOption = factoryCall(call).timeOption
    /\ callable \in FactoryCallables
    /\ timeLimit \in {NoTimeLimit, SomeTimeLimit}
    /\ throttle = IF factoryName \in {SEQUENCE, FALLBACK} THEN 1 ELSE 0
    /\ initialMessage \in InitialMessages
    /\ thrown = JsUndefined
    /\ phase = "called"
    /\ NothingInvoked

\* The caller calls parallel, sequence, race or fallback (parallel.js:86-163,
\* sequence.js:98-113, race.js:50-71, fallback.js:44-54): the factory throws
\* or returns a requestor.  No factory calls run or sets a timer.
FactoryCall ==
    /\ phase = "called"
    /\ thrown' = factoryCall(call).thrown
    /\ phase' = IF factoryCall(call).thrown = JsUndefined THEN "built"
                ELSE "threw"
    /\ timeOption' = factoryCall(call).timeOption
    /\ UNCHANGED <<cfgVars, numberPending, numberPendingNecessities, results,
                   cancellors, nextIndex, timerId, requestorIndex, queue,
                   timerArmed, received, cancelCalls, launched, actionCalls,
                   outcomes, returned>>

NextFactory == FactoryCall \/ Next
SpecFactory == InitFactory /\ [][NextFactory]_vars

\* One factory at a time.
InitParallel == Init /\ factoryName = PARALLEL
SpecParallel == InitParallel /\ [][Next]_vars
InitSequence == Init /\ factoryName = SEQUENCE
SpecSequence == InitSequence /\ [][Next]_vars
InitRace == Init /\ IsRace
SpecRace == InitRace /\ [][Next]_vars

\* ------------------------------------------------------------------ claims

\* C1: the receiver passed to one invocation of a requestor built by
\* parallel, race, sequence or fallback is called at most once, whatever the
\* composed requestors do.
C1_ReceiverCalledAtMostOnce == Len(received) <= 1

\* C2: sequence launches its requestors in array order, and launches the
\* requestor at index i+1 only after the requestor at index i has reported.
C2_SequenceLaunchesInOrder ==
    factoryName = SEQUENCE =>
        \A k \in 1 .. Len(launched) :
            /\ launched[k].index = k - 1
            /\ k > 1 => actionCalls[k - 2] > 0

\* C3: when the deadline of a sequence fires while a requestor has yet to
\* report, the receiver is called with a failure and the run is cancelled.
C3_SequenceFailsAtDeadline ==
    [][(/\ Timeout
        /\ factoryName = SEQUENCE
        /\ timeLimit > 0
        /\ cancellors # <<>>
        /\ received = <<>>
        /\ \E i \in Indices : i < nextIndex /\ outcomes[i] = "pending")
       => (/\ Len(received') = 1
           /\ received'[1].value = JsUndefined
           /\ received'[1].reason # JsUndefined
           /\ cancellors' = <<>>)]_vars

\* What run took requestor i to report: the slot parallel keeps for it.
ReportOf(i) ==
    CASE outcomes[i] = "ok" -> [value |-> ValueOf(i), reason |-> JsUndefined]
      [] outcomes[i] = "fail" -> [value |-> JsUndefined, reason |-> ReasonOf(i)]
      [] outcomes[i] = "threw" -> [value |-> JsUndefined, reason |-> ThrownBy(i)]
      [] OTHER -> Hole
NoRequestorThrew == \A i \in Indices : returned[i] # "throws"
NecessityFailed ==
    \E i \in Indices :
        i < numberOfNecessities /\ outcomes[i] \in {"fail", "threw"}

\* C4: in a sequence whose requestors all succeed, the first requestor gets
\* the initial message, each later one gets the value the one before it
\* reported, and the receiver gets the value of the last requestor.
C4_SequenceThreadsMessages ==
    (/\ factoryName = SEQUENCE
     /\ NoRequestorThrew
     /\ \A i \in Indices : outcomes[i] \in {"pending", "ok"})
    => /\ \A k \in 1 .. Len(launched) :
             launched[k].message =
                 IF k = 1 THEN initialMessage ELSE ValueOf(k - 2)
       /\ (requestorsLength > 0 /\ \A i \in Indices : outcomes[i] = "ok")
          => /\ received # <<>>
             /\ received[1].value = ValueOf(requestorsLength - 1)
             /\ received[1].reason = JsUndefined
C4_Witness ==
    /\ factoryName = SEQUENCE
    /\ requestorsLength = 3
    /\ NoRequestorThrew
    /\ \A i \in Indices : outcomes[i] = "ok"
    /\ launched[3].message = ValueOf(1)
    /\ received[1].value = ValueOf(2)

\* C5: a success of parallel carries the results array, and slot k of it
\* holds the { value, reason } that requestor k reported, in whatever order
\* the requestors completed.
C5_ParallelResultsByIndex ==
    factoryName = PARALLEL =>
        \A k \in 1 .. Len(received) :
            received[k].value = ArrayValue =>
                \A i \in Indices : received[k].results.elems[i] = ReportOf(i)
\* the necessity at index 0 is the last to report
C5_Witness ==
    /\ factoryName = PARALLEL
    /\ requestorsLength >= 2
    /\ Len(received) = 1
    /\ received[1].value = ArrayValue
    /\ received[1].requestorIndex = 0
    /\ \A i \in Indices : outcomes[i] # "pending"
    /\ \A i \in Indices : received[1].results.elems[i] # Hole

\* C6: once a necessity of parallel has failed or thrown, the run is
\* cancelled, every pending requestor that returned a cancellor had it
\* called, and the receiver got a failure and never gets a success.
C6_NecessityFailureFailsParallel ==
    (factoryName = PARALLEL /\ NecessityFailed)
    => /\ received # <<>>
       /\ \A k \in 1 .. Len(received) :
             received[k].value = JsUndefined /\ received[k].reason # JsUndefined
       /\ cancellors = <<>>
       /\ \A j \in Indices :
             (returned[j] \in {"fn", "fnReports"} /\ outcomes[j] = "pending")
             => cancelCalls[j] # <<>>

\* C7: unless a necessity fails or throws, parallel delivers no failure other
\* than the deadline's, whatever the optionals report; and once every
\* requestor has reported, it has delivered a success.
C7_OptionalFailureTolerated ==
    (factoryName = PARALLEL /\ ~NecessityFailed)
    => /\ \A k \in 1 .. Len(received) :
             received[k].value = JsUndefined => received[k].from = "timeout"
       /\ (requestorsLength > 0 /\ \A i \in Indices : outcomes[i] # "pending")
          => received # <<>> /\ received[1].value = ArrayValue
C7_Witness ==
    /\ factoryName = PARALLEL
    /\ ~NecessityFailed
    /\ \E i \in Indices :
          i >= numberOfNecessities /\ outcomes[i] \in {"fail", "threw"}
    /\ \A i \in Indices : outcomes[i] # "pending"
    /\ received # <<>>
    /\ received[1].value = ArrayValue

\* C8: when the deadline of a parallel whose timeOption is not
\* REQUIRE_NECESSITIES fires while a necessity has yet to complete, the
\* receiver is called with a failure and every pending requestor is
\* cancelled with the "Time limit reached!" reason.
C8_ParallelFailsAtDeadline ==
    [][(/\ Timeout
        /\ factoryName = PARALLEL
        /\ timeLimit > 0
        /\ timeOption # REQUIRE_NECESSITIES
        /\ cancellors # <<>>
        /\ received = <<>>
        /\ \E i \in Indices :
              i < numberOfNecessities /\ outcomes[i] = "pending")
       => (/\ Len(received') = 1
           /\ received'[1].value = JsUndefined
           /\ cancellors' = <<>>
           /\ \A j \in Indices :
                 IsFunctionSlot(cancellors[j])
                 => \E c \in 1 .. Len(cancelCalls'[j]) :
                       /\ c > Len(cancelCalls[j])
                       /\ cancelCalls'[j][c] =
                              makeReason("Time limit reached!", timeLimit))]_vars

C10_RaceFailsOnlyIfAllFail ==
    IsRace =>
        \A k \in 1 .. Len(received) :
            (received[k].value = JsUndefined /\ received[k].from # "timeout")
            => /\ \A i \in Indices : outcomes[i] \in {"fail", "threw"}
               /\ received[k].requestorIndex \in Indices
               /\ received[k].reason = ReportOf(received[k].requestorIndex).reason

\* C11: when the deadline of a race or fallback fires before anything was
\* delivered, the receiver is called once, with a failure whose reason is the
\* "Timeout occured!" reason; the cancellor of every pending requestor is
\* called exactly once, with that reason; and after the deadline's delivery
\* neither action nor the receiver is called again.
C11_RaceFailsAtDeadline ==
    [][/\ (/\ Timeout
           /\ IsRace
           /\ cancellors # <<>>
           /\ received = <<>>)
          => /\ Len(received') = 1
             /\ received'[1].value = JsUndefined
             /\ received'[1].reason = makeReason("Timeout occured!", timeLimit)
             /\ cancellors' = <<>>
             /\ \A j \in Indices :
                   IsFunctionSlot(cancellors[j])
                   => cancelCalls'[j] =
                          <<makeReason("Timeout occured!", timeLimit)>>
       /\ (IsRace /\ \E k \in 1 .. Len(received) : received[k].from = "timeout")
          => received' = received /\ actionCalls' = actionCalls]_vars

\* C12: fallback launches its requestors in array order, launches the
\* requestor at index i+1 only after the one at index i has failed or thrown,
\* launches nothing after a success, and hands the value of that success to
\* the receiver.
C12_FallbackOneAtATime ==
    factoryName = FALLBACK =>
        /\ \A k \in 1 .. Len(launched) :
              /\ launched[k].index = k - 1
              /\ k > 1 => outcomes[k - 2] \in {"fail", "threw"}
        /\ \A i \in Indices :
              outcomes[i] = "ok"
              => /\ nextIndex = i + 1
                 /\ \E k \in 1 .. Len(received) :
                       received[k].value = ValueOf(i)

\* C13: the cancellor that run returns is idempotent.  In every state, a
\* second call right after a first one changes nothing: no requestor
\* cancellor is called, neither action nor the receiver is called, and no
\* session state changes; and so does a call made after the factory-built
\* receiver was called.
C13_CancelIdempotent ==
    (phase = "invoked" /\ (IsRace \/ requestorsLength > 0))
    => \A r1, r2 \in {JsUndefined, makeReason("caller", -1)} :
          /\ cancel(cancel(Cur("cancel"), r1), r2) = cancel(Cur("cancel"), r1)
          /\ received # <<>> => cancel(Cur("cancel"), r1) = Cur("cancel")
\* the caller has cancelled a run with a requestor in flight, whose cancellor
\* was called once
C13_Witness ==
    /\ phase = "invoked"
    /\ cancellors = <<>>
    /\ received = <<>>
    /\ \E j \in Indices :
          /\ outcomes[j] = "pending"
          /\ returned[j] = "fn"
          /\ cancelCalls[j] = <<DEFAULT_CANCEL_REASON>>

\* C14: once the caller has called the cancellor that run returned, the
\* session is dead.  The call leaves cancellors undefined and the deadline's
\* timer cleared and launches nothing; and from a state in which cancellors
\* is undefined no turn launches a requestor, calls action, calls a
\* requestor's cancellor or calls the receiver, and the timer is not armed.
C14_CancelledSessionIsDead ==
    [][/\ ExternalCancel
          => /\ cancellors' = <<>>
             /\ ~timerArmed'
             /\ launched' = launched
       /\ (phase = "invoked" /\ cancellors = <<>>)
          => /\ ~timerArmed
             /\ launched' = launched
             /\ nextIndex' = nextIndex
             /\ actionCalls' = actionCalls
             /\ cancelCalls' = cancelCalls
             /\ received' = received
             /\ outcomes' = outcomes]_vars
\* the caller cancelled a run that had a deadline, a requestor in flight and
\* a requestor yet to launch, whose startRequestor is still queued
C14_Witness ==
    /\ phase = "invoked"
    /\ cancellors = <<>>
    /\ timeLimit = SomeTimeLimit
    /\ received = <<>>
    /\ queue # <<>>
    /\ 0 < nextIndex /\ nextIndex < requestorsLength
    /\ \E j \in Indices :
          /\ outcomes[j] = "pending"
          /\ cancelCalls[j] = <<makeReason("caller", -1)>>

\* C15: when the caller calls the run's cancellor, the cancellor of every
\* requestor that was launched, has yet to report and returned a function is
\* called exactly once, with the caller's reason or with the "Cancel!"
\* reason; and no step calls the cancellor of a requestor that has reported.
C15_CancelCallsPendingCancellorsOnce ==
    [][/\ \A reason \in {JsUndefined, makeReason("caller", -1)} :
             (/\ phase = "invoked"
              /\ cancellors # <<>>
              /\ Commit(cancel(Cur("cancel"), reason)))
             => \A j \in Indices :
                   (outcomes[j] = "pending" /\ IsFunctionSlot(returned[j]))
                   => cancelCalls'[j] =
                          <<IF reason = JsUndefined
                            THEN DEFAULT_CANCEL_REASON ELSE reason>>
       /\ \A j \in Indices :
             outcomes[j] \in {"ok", "fail"}
             => cancelCalls'[j] = cancelCalls[j]]_vars

\* C16: with a throttle k > 0, the requestors that were launched and whose
\* outcome action has yet to be told are never more than k; with throttle 0
\* the launch of every requestor is scheduled when the run starts.
C16_ThrottleBoundsInFlight ==
    /\ throttle > 0
       => Cardinality({i \in Indices : i < nextIndex /\ actionCalls[i] = 0})
              <= throttle
    /\ (throttle = 0 /\ cancellors # <<>> /\ launched = <<>>)
       => Len(queue) = requestorsLength

\* C17: the factory-built receiver is never called inside the call that
\* invokes the factory-built requestor, whatever the requestor list, the
\* empty list of parallel included: it is first called in a later turn.
C17_ReceiverNeverCalledInInvocation ==
    \A k \in 1 .. Len(received) : received[k].turn # "invoke"

\* C18: with no requestors, the sequence configuration calls the receiver
\* with a failure whose reason is "No requestors provided" and with no
\* value, and parallel calls it with a success whose value is an empty array.
C18_EmptyRequestorList ==
    (phase = "invoked" /\ requestorsLength = 0)
    => /\ Len(received) = 1
       /\ IF factoryName = SEQUENCE
          THEN /\ received[1].value = JsUndefined
               /\ received[1].reason = makeReason("No requestors provided", -1)
          ELSE /\ received[1].value = ArrayValue
               /\ received[1].results.len = 0
               /\ received[1].reason = JsUndefined

\* C19: a timeLimit of 0 disables the deadline: no timer is armed and the
\* timeout callback is never called, whatever the requestors do.
C19_ZeroTimeLimitDisablesDeadline ==
    timeLimit = ZeroTimeLimit
    => /\ ~timerArmed
       /\ timerId = "undefined"
       /\ \A k \in 1 .. Len(received) : received[k].from # "timeout"

\* C20: the invocations of one factory-built requestor are independent of
\* each other: as long as the deadline of an invocation has not fired, the
\* invocation works with the time option the factory was built with,
\* whatever an earlier invocation of the same requestor went through.
C20_InvocationsAreIndependent ==
    (phase = "invoked" /\ timerArmed) => timeOption = builtTimeOption

\* Every necessity has reported a success.
NecessitiesDone ==
    \A i \in Indices : i < numberOfNecessities => outcomes[i] = "ok"

\* C21: under REQUIRE_NECESSITIES the deadline never makes parallel fail.
\* When it fires with every necessity done, the run is cancelled, the
\* cancellor of every pending optional is called and the receiver gets a
\* success whose array holds what has been reported; when it fires with a
\* necessity pending, nothing is delivered and nothing is cancelled, and the
\* step in which the last necessity then succeeds delivers a success and
\* cancels the pending optionals.  A failure is delivered only when a
\* necessity failed or threw.
C21_RequireNecessitiesDeadline ==
    [][(/\ factoryName = PARALLEL
        /\ builtTimeOption = REQUIRE_NECESSITIES
        /\ timeLimit > 0)
       => /\ (/\ Timeout
              /\ timeOption = REQUIRE_NECESSITIES
              /\ cancellors # <<>>
              /\ received = <<>>)
             => IF NecessitiesDone
                THEN /\ received' # <<>>
                     /\ \A k \in 1 .. Len(received') :
                           /\ received'[k].value = ArrayValue
                           /\ \A i \in Indices :
                                 received'[k].results.elems[i] = ReportOf(i)'
                     /\ cancellors' = <<>>
                     /\ \A j \in Indices :
                           (IsFunctionSlot(cancellors[j])
                            /\ outcomes'[j] = "pending")
                           => Len(cancelCalls'[j]) > Len(cancelCalls[j])
                ELSE /\ received' = <<>>
                     /\ cancellors' = cancellors
                     /\ cancelCalls' = cancelCalls
          /\ (/\ timeOption = SKIP_OPTIONALS_IF_TIME_REMAINS
              /\ cancellors # <<>>
              /\ received = <<>>
              /\ ~NecessitiesDone
              /\ NecessitiesDone')
             => /\ received' # <<>>
                /\ \A k \in 1 .. Len(received') :
                      received'[k].value = ArrayValue
                /\ cancellors' = <<>>
                /\ \A j \in Indices :
                      (IsFunctionSlot(cancellors[j])
                       /\ outcomes'[j] = "pending")
                      => Len(cancelCalls'[j]) > Len(cancelCalls[j])
          /\ \A k \in 1 .. Len(received') :
                received'[k].value = JsUndefined => NecessityFailed']_vars
\* the deadline fired with a necessity pending; the necessity has since
\* succeeded and the optional, still pending, was cancelled
C21_Witness ==
    /\ factoryName = PARALLEL
    /\ builtTimeOption = REQUIRE_NECESSITIES
    /\ timeOption = SKIP_OPTIONALS_IF_TIME_REMAINS
    /\ timeLimit = SomeTimeLimit
    /\ NecessitiesDone
    /\ Len(received) = 1
    /\ received[1].value = ArrayValue
    /\ received[1].turn = "async"
    /\ cancellors = <<>>
    /\ \E j \in Indices :
          /\ j >= numberOfNecessities
          /\ outcomes[j] = "pending"
          /\ cancelCalls[j] # <<>>

\* C22: under SKIP_OPTIONALS_IF_TIME_REMAINS with necessities and optionals,
\* the step in which the last necessity reports a success finishes the run:
\* the cancellor of every optional in flight is called, cancellors is
\* released, no optional is launched in that step or later, and the receiver
\* gets a success whose array holds exactly what has been reported.
C22_SkipOptionalsFinishesWithNecessities ==
    [][(/\ factoryName = PARALLEL
        /\ builtTimeOption = SKIP_OPTIONALS_IF_TIME_REMAINS
        /\ 0 < numberOfNecessities
        /\ numberOfNecessities < requestorsLength)
       => /\ (/\ cancellors # <<>>
              /\ received = <<>>
              /\ ~NecessitiesDone
              /\ NecessitiesDone')
             => /\ received' # <<>>
                /\ \A k \in 1 .. Len(received') :
                      /\ received'[k].value = ArrayValue
                      /\ \A i \in Indices :
                            received'[k].results.elems[i] = ReportOf(i)'
                /\ cancellors' = <<>>
                /\ \A j \in Indices :
                      (IsFunctionSlot(cancellors[j])
                       /\ outcomes'[j] = "pending")
                      => Len(cancelCalls'[j]) > Len(cancelCalls[j])
                /\ \A k \in (Len(launched) + 1) .. Len(launched') :
                      launched'[k].index < numberOfNecessities
          /\ (NecessitiesDone /\ received # <<>>)
             => launched' = launched]_vars
\* the last necessity succeeded with one optional in flight, which was
\* cancelled, and the receiver got the array with a hole for it
C22_Witness ==
    /\ factoryName = PARALLEL
    /\ builtTimeOption = SKIP_OPTIONALS_IF_TIME_REMAINS
    /\ 0 < numberOfNecessities
    /\ NecessitiesDone
    /\ Len(received) = 1
    /\ received[1].value = ArrayValue
    /\ cancellors = <<>>
    /\ \E j \in Indices :
          /\ j >= numberOfNecessities
          /\ outcomes[j] = "pending"
          /\ returned[j] = "fn"
          /\ cancelCalls[j] # <<>>
          /\ received[1].results.elems[j] = Hole

\* C23: under TRY_OPTIONALS_IF_TIME_REMAINS (which parallel also works with
\* when it has optionals only), action delivers a success only when every
\* requestor has reported; and when the deadline fires with every necessity
\* done and nothing delivered, the cancellor of every pending optional is
\* called, cancellors is released and the receiver gets a success whose array
\* holds what has been reported.
C23_TryOptionalsWaitsForOptionals ==
    [][(/\ factoryName = PARALLEL
        /\ builtTimeOption = TRY_OPTIONALS_IF_TIME_REMAINS
        /\ requestorsLength > 0)
       => /\ \A k \in 1 .. Len(received') :
                (received'[k].value = ArrayValue
                 /\ received'[k].from = "action")
                => \A i \in Indices : outcomes'[i] # "pending"
          /\ (/\ Timeout
              /\ cancellors # <<>>
              /\ received = <<>>
              /\ NecessitiesDone)
             => /\ received' # <<>>
                /\ \A k \in 1 .. Len(received') :
                      /\ received'[k].value = ArrayValue
                      /\ \A i \in Indices :
                            received'[k].results.elems[i] = ReportOf(i)'
                /\ cancellors' = <<>>
                /\ \A j \in Indices :
                      (IsFunctionSlot(cancellors[j])
                       /\ outcomes'[j] = "pending")
                      => Len(cancelCalls'[j]) > Len(cancelCalls[j])]_vars

\* C24: the run's cancellor copes with misbehaving requestors.  When the
\* caller cancels a run some of whose requestors returned a value that is not
\* a function, or a cancellor that throws, the call still calls every
\* cancellor that is a function, releases cancellors and clears the timer.
C24_CancelSurvivesFaultyCancellors ==
    [][(ExternalCancel /\ cancellors # <<>>)
       => /\ cancellors' = <<>>
          /\ ~timerArmed'
          /\ timerId' = "undefined"
          /\ \A j \in Indices :
                IsFunctionSlot(cancellors[j])
                => Len(cancelCalls'[j]) > Len(cancelCalls[j])]_vars
\* the caller cancelled a run whose first requestor returned a throwing
\* cancellor, or no function at all, and whose second returned a cancellor
C24_Witness ==
    /\ cancellors = <<>>
    /\ received = <<>>
    /\ \E i, j \in Indices :
          /\ i < j
          /\ returned[i] \in FaultyReturns
          /\ returned[j] = "fn"
          /\ outcomes[i] = "pending"
          /\ outcomes[j] = "pending"
          /\ returned[i] = "fnThrows" => cancelCalls[i] # <<>>
          /\ cancelCalls[j] = <<DEFAULT_CANCEL_REASON>>

\* a Reason of makeReason, as opposed to any other exception
IsReason(x) == x # JsUndefined /\ x # TypeError
\* the requestors handed to parallel in the factory call: the elements of
\* the first array and of spec.optionals
CallRequestors ==
    call.first.elems
        \o (IF call.optionals.type = "array" THEN call.optionals.elems
            ELSE <<>>)
IsProperRequestor(r) == r.type = "function" /\ r.length \in {1, 2}

\* C25: race and fallback throw a Reason from the factory call when the
\* requestor array is missing or empty; parallel throws from the factory
\* call when its first argument is neither an array nor an object or when
\* one of the requestors is not a function of one or two parameters; and
\* after a factory call threw no requestor was launched, no launch is
\* pending and no timer is armed.
C25_FactoriesRejectBadRequestors ==
    /\ [][FactoryCall =>
            /\ (/\ call.factory \in {RACE, FALLBACK}
                /\ \/ call.first = NoArgument
                   \/ call.first = ArrayArgument(<<>>))
               => (phase' = "threw" /\ IsReason(thrown'))
            /\ (/\ call.factory = PARALLEL
                /\ \/ call.first.type \notin {"array", "object"}
                   \/ \E k \in 1 .. Len(CallRequestors) :
                         ~IsProperRequestor(CallRequestors[k]))
               => (phase' = "threw" /\ thrown' # JsUndefined)]_vars
    /\ [](phase = "threw" =>
            /\ ~ENABLED Next
            /\ launched = <<>>
            /\ queue = <<>>
            /\ ~timerArmed
            /\ timerId = "undefined")
\* parallel threw for an array of a proper requestor and a function of no
\* parameters.
C25_Witness ==
    /\ phase = "threw"
    /\ call.factory = PARALLEL
    /\ call.first = ArrayArgument(<<ProperRequestor,
                                    [type |-> "function", length |-> 0]>>)
    /\ thrown =
          makeReason("Requestors must be functions of 1 or 2 arguments!", -1)

\* C26: in one run action is called at most once for each requestor index,
\* and never with a requestorIndex that is undefined.
C26_ActionOncePerIndex ==
    /\ \A i \in Indices : actionCalls[i] <= 1
    /\ actionCalls[UndefinedIndex] = 0

\* C27: a requestor whose cancellor the run's cancel has called is not
\* listened to any more: a receiver call it makes from inside its cancellor,
\* or later, calls no action.
C27_ReceiverCallDuringCancelIgnored ==
    \A i \in Indices : cancelCalls[i] # <<>> => actionCalls[i] = 0

\* C28: for a requestor that threw when it was invoked, action was called
\* exactly once for its index, with the thrown value as reason and no value,
\* and, with the run not cancelled, the requestor after it was launched.
C28_ThrowIsFailureOfThatIndex ==
    \A i \in Indices :
        returned[i] = "throws"
        => /\ actionCalls[i] = 1
           /\ outcomes[i] = "threw"
           /\ (cancellors # <<>> /\ i + 1 < requestorsLength)
              => nextIndex > i + 1

\* C29: once the receiver of a combinator over a non-empty requestor list
\* was called, the session is terminal: no timer is left, the cancellors
\* are released, and the receiver is not called a second time.
C29_ReceiverCallIsTerminal ==
    (received # <<>> /\ requestorsLength > 0)
    => /\ ~timerArmed
       /\ timerId = "undefined"
       /\ cancellors = <<>>
       /\ Len(received) = 1

\* C30: whatever the throttle, the requestors are launched in strictly
\* increasing order of their index, so none is invoked twice and, in
\* parallel, no optional is launched before a necessity.
C30_LaunchOrderIncreasing ==
    /\ \A j, k \in 1 .. Len(launched) :
          j < k => launched[j].index < launched[k].index
    /\ \A j, k \in 1 .. Len(launched) :
          (/\ factoryName = PARALLEL
           /\ launched[j].index >= numberOfNecessities
           /\ launched[k].index < numberOfNecessities) => k < j
\* parallel launched two necessities and an optional, two at a time.
C30_Witness ==
    /\ factoryName = PARALLEL
    /\ throttle = 2
    /\ numberOfNecessities = 2
    /\ requestorsLength = 3
    /\ Len(launched) = 3

C32_SameMessageUnlessSequence ==
    factoryName # SEQUENCE
    => \A k \in 1 .. Len(launched) : launched[k].message = initialMessage
\* parallel, one at a time: the second requestor was launched after the
\* first one reported a value.
C32_Witness ==
    /\ factoryName = PARALLEL
    /\ throttle = 1
    /\ Len(launched) = 2
    /\ outcomes[0] = "ok"
    /\ ~launched[2].direct
    /\ launched[2].message = initialMessage

\* C33: every Result handed to the receiver of a combinator is a success or
\* a failure and never both: exactly one of value and reason is defined.
C33_ResultIsValueXorReason ==
    \A k \in 1 .. Len(received) :
        (received[k].value = JsUndefined) # (received[k].reason = JsUndefined)

\* the lists of a call of parallel
CallNecessities == Len(call.first.elems)
CallOptionals ==
    IF call.optionals.type = "array" THEN Len(call.optionals.elems) ELSE 0
CallIsProper ==
    \A k \in 1 .. Len(CallRequestors) : IsProperRequestor(CallRequestors[k])

\* C34: parallel called with proper requestors works with
\* TRY_OPTIONALS_IF_TIME_REMAINS when it has optionals and no necessity, and
\* with SKIP_OPTIONALS_IF_TIME_REMAINS when it has necessities and no
\* optional, whatever the caller's timeOption, an invalid one included, and
\* for the whole run; with both lists non-empty it is built with the caller's
\* timeOption, and throws a Reason when that is none of the time options.
C34_TimeOptionNormalised ==
    /\ [][(/\ FactoryCall
           /\ call.factory = PARALLEL
           /\ call.first.type \in {"array", "object"}
           /\ CallIsProper)
          => /\ (CallNecessities = 0 /\ CallOptionals > 0)
                => (phase' = "built"
                    /\ timeOption' = TRY_OPTIONALS_IF_TIME_REMAINS)
             /\ (CallNecessities > 0 /\ CallOptionals = 0)
                => (phase' = "built"
                    /\ timeOption' = SKIP_OPTIONALS_IF_TIME_REMAINS)
             /\ (CallNecessities > 0 /\ CallOptionals > 0)
                => IF call.timeOption \in allTimeOptions
                   THEN phase' = "built" /\ timeOption' = call.timeOption
                   ELSE phase' = "threw" /\ IsReason(thrown')]_vars
    /\ []((call.factory = PARALLEL /\ phase \in {"built", "invoked"})
          => /\ (CallNecessities = 0 /\ CallOptionals > 0)
                => timeOption = TRY_OPTIONALS_IF_TIME_REMAINS
             /\ (CallNecessities > 0 /\ CallOptionals = 0)
                => timeOption = SKIP_OPTIONALS_IF_TIME_REMAINS)
\* parallel with an optional, no necessity and an invalid timeOption was
\* built and invoked, and runs with TRY_OPTIONALS_IF_TIME_REMAINS.
C34_Witness ==
    /\ call.factory = PARALLEL
    /\ call.timeOption = InvalidTimeOption
    /\ CallNecessities = 0
    /\ CallOptionals = 1
    /\ phase = "invoked"
    /\ launched # <<>>
    /\ timeOption = TRY_OPTIONALS_IF_TIME_REMAINS

\* C35: in a run without a deadline that is never cancelled from outside and
\* whose launched requestors all report in the end, the combinator ends up
\* calling its receiver, and every requestor ends up launched unless the
\* receiver was called first.
C35_RunTerminates ==
    /\ <>(received # <<>>)
    /\ <>(nextIndex = requestorsLength \/ received # <<>>)
\* a sequence of three requestors delivered after the last one was launched
C35_Witness ==
    /\ factoryName = SEQUENCE
    /\ requestorsLength = 3
    /\ nextIndex = 3
    /\ timeLimit = NoTimeLimit
    /\ Len(received) = 1
    /\ received[1].value = ValueOf(2)

\* C36: when run throws for its arguments it leaves nothing behind: no
\* deadline timer is armed, no startRequestor is queued, and nothing runs
\* afterwards, neither timeout nor a requestor.
C36_RunThrowLeavesNothing ==
    /\ [](phase = "runThrew"
          => /\ thrown # JsUndefined
             /\ ~timerArmed
             /\ timerId = "undefined"
             /\ queue = <<>>
             /\ launched = <<>>)
    /\ [][phase = "runThrew" => UNCHANGED vars]_vars

\* the requestors for which action has not been called
ActionPending == {i \in Indices : actionCalls[i] = 0}

\* C37: in an invocation numberPending is the number of requestors for which
\* action has not been called yet and, in parallel, numberPendingNecessities
\* the number of necessities among them, so that
\* 0 <= numberPendingNecessities <= numberPending <= n; in a race
\* numberPending never goes below 0.
C37_PendingCountersExact ==
    phase = "invoked"
    => /\ numberPending = Cardinality(ActionPending)
       /\ numberPending >= 0
       /\ ~IsRace
          => /\ numberPendingNecessities =
                   Cardinality({i \in ActionPending : i < numberOfNecessities})
             /\ 0 <= numberPendingNecessities
             /\ numberPendingNecessities <= numberPending
             /\ numberPending <= requestorsLength

====
